---- MODULE Spec2Model ----
(***************************************************************************)
(* A model of resilience.circuit_breaker.CircuitBreaker: the breaker's     *)
(* state machine, its sliding window (RingBuffer) and probe counter        *)
(* (Counter), and the wrapper that guards a function, called by            *)
(* concurrent threads.                                                     *)
(*                                                                         *)
(* Modelling decisions:                                                    *)
(*  - Every block the code runs under __state_transition_lock is one       *)
(*    atomic step.  The only unlocked access to the breaker is the last    *)
(*    statement of the state getter, "return self.__state", which is a     *)
(*    step of its own.                                                     *)
(*  - datetime.now() is the variable now, a clock that only moves          *)
(*    forward; all reads of the clock inside one locked block see the      *)
(*    same instant.                                                        *)
(*  - trip_threshold is a fraction <<num, den>>; the test                  *)
(*    failures / size > threshold is failures * den > num * size.          *)
(*  - An exception is its category; isinstance against                     *)
(*    allowed_exceptions is membership in AllowedExceptions.               *)
(***************************************************************************)
EXTENDS Integers, Sequences, FiniteSets

\* Bounds of the model.
MaxWindow == 3
MaxDuration == 2
MaxProbes == 2
MaxTime == 4
MaxAdds == 4
MaxItem == 3

Threads == {1, 2}
Thresholds == {<<1, 4>>, <<1, 2>>, <<1, 1>>}

\* class CircuitBreakerState
CLOSED == "closed"
OPEN == "open"
HALF_OPEN == "half_open"
CircuitBreakerState == {CLOSED, OPEN, HALF_OPEN}

\* class Result
SUCCESS == "SUCCESS"
FAILURE == "FAILURE"

\* What the guarded function can do: return a value, or raise an exception
\* that is an instance of an allowed exception, or one that is not.
AllowedExceptions == {"IgnoredError"}
Exceptions == {"IgnoredError", "CountedError"}
FuncResults == {"value"} \cup Exceptions

VARIABLES
    sliding_window_size,        \* configuration, fixed at construction
    trip_threshold,
    trip_duration,
    allowed_calls_in_half_open,
    cb,       \* the breaker: state, state_transitioned_at, executions, calls_since_half_open
    now,      \* the clock
    pc,       \* each thread's position
    result,   \* what the guarded function did, until it is reported
    ret,      \* what the thread's last operation returned or raised
    admitted_in_half_open,  \* history: calls admitted in the current HALF_OPEN episode
    hist,     \* items added to a ring buffer since its last clear (SpecRing only)
    listed    \* the last list(ring_buffer) taken (SpecRing only)

vars == <<sliding_window_size, trip_threshold, trip_duration,
          allowed_calls_in_half_open, cb, now, pc, result, ret,
          admitted_in_half_open, hist, listed>>
config == <<sliding_window_size, trip_threshold, trip_duration,
            allowed_calls_in_half_open>>

----------------------------------------------------------------------------
\* resilience.utils.RingBuffer

RingBufferAdd_DropsNewest(buf, capacity, item) ==
    IF Len(buf) < capacity THEN Append(buf, item) ELSE buf

RingBufferAdd(buf, capacity, item) ==
    IF capacity = 0 THEN buf
    ELSE IF Len(buf) < capacity THEN Append(buf, item)
    ELSE Append(Tail(buf), item)

RingBufferClear(buf) == <<>>

RingBufferIter(buf) == buf

----------------------------------------------------------------------------
\* CircuitBreaker

state_setter_KeepsWindow(b, current_state, t) ==
    [b EXCEPT !.state = current_state,
              !.state_transitioned_at = t,
              !.calls_since_half_open =
                  IF current_state \in {HALF_OPEN, CLOSED} THEN 0 ELSE @]

state_setter_KeepsCounter(b, current_state, t) ==
    [b EXCEPT !.state = current_state,
              !.state_transitioned_at = t,
              !.calls_since_half_open =
                  IF current_state = HALF_OPEN THEN 0 ELSE @,
              !.executions =
                  IF current_state = CLOSED THEN RingBufferClear(@) ELSE @]

state_setter_ResetsOnOpen(b, current_state, t) ==
    [b EXCEPT !.state = current_state,
              !.state_transitioned_at = t,
              !.calls_since_half_open = 0,
              !.executions =
                  IF current_state = CLOSED THEN RingBufferClear(@) ELSE @]

state_setter(b, current_state, t) ==
    [b EXCEPT !.state = current_state,
              !.state_transitioned_at = t,
              !.calls_since_half_open =
                  IF current_state \in {HALF_OPEN, CLOSED} THEN 0 ELSE @,
              !.executions =
                  IF current_state = CLOSED THEN RingBufferClear(@) ELSE @]

state_getter_NoDurationCheck(b, t) ==
    IF b.state = OPEN THEN state_setter(b, HALF_OPEN, t) ELSE b

state_getter_AtDuration(b, t) ==
    IF b.state = OPEN /\ t - b.state_transitioned_at >= trip_duration
    THEN state_setter(b, HALF_OPEN, t)
    ELSE b

state_getter_Retransitions(b, t) ==
    IF b.state # CLOSED /\ t - b.state_transitioned_at > trip_duration
    THEN state_setter(b, HALF_OPEN, t)
    ELSE b

state_getter_SwappedOperands(b, t) ==
    IF b.state = OPEN /\ b.state_transitioned_at - t > trip_duration
    THEN state_setter(b, HALF_OPEN, t)
    ELSE b

\* The locked block of the state getter; the value the getter returns is
\* the state field read afterwards.
state_getter(b, t) ==
    IF b.state = OPEN /\ t - b.state_transitioned_at > trip_duration
    THEN state_setter(b, HALF_OPEN, t)
    ELSE b

handle_call_success_ClosesAtQuota(b, t) ==
    LET b1 == state_getter(b, t)
        b2 == IF b1.state = CLOSED
              THEN [b1 EXCEPT !.executions =
                                 RingBufferAdd(@, sliding_window_size, SUCCESS)]
              ELSE LET b1r == state_getter(b1, t)
                   IN  IF b1r.state = HALF_OPEN
                       THEN [b1r EXCEPT !.calls_since_half_open = @ + 1]
                       ELSE b1r
    IN  IF b2.calls_since_half_open >= allowed_calls_in_half_open
        THEN state_setter(b2, CLOSED, t)
        ELSE b2

handle_call_success_RecordsProbes(b, t) ==
    LET b1 == state_getter(b, t)
        b2 == IF b1.state = CLOSED
              THEN [b1 EXCEPT !.executions =
                                 RingBufferAdd(@, sliding_window_size, SUCCESS)]
              ELSE LET b1r == state_getter(b1, t)
                   IN  IF b1r.state = HALF_OPEN
                       THEN [b1r EXCEPT !.calls_since_half_open = @ + 1,
                                        !.executions =
                                 RingBufferAdd(@, sliding_window_size, SUCCESS)]
                       ELSE b1r
    IN  IF b2.calls_since_half_open > allowed_calls_in_half_open
        THEN state_setter(b2, CLOSED, t)
        ELSE b2

handle_call_success(b, t) ==
    LET b1 == state_getter(b, t)
        b2 == IF b1.state = CLOSED
              THEN [b1 EXCEPT !.executions =
                                 RingBufferAdd(@, sliding_window_size, SUCCESS)]
              ELSE LET b1r == state_getter(b1, t)
                   IN  IF b1r.state = HALF_OPEN
                       THEN [b1r EXCEPT !.calls_since_half_open = @ + 1]
                       ELSE b1r
    IN  IF b2.calls_since_half_open > allowed_calls_in_half_open
        THEN state_setter(b2, CLOSED, t)
        ELSE b2

failures(executions) ==
    Cardinality({i \in 1..Len(executions) : executions[i] = FAILURE})

exceeds_threshold_NonStrict(n_failures) ==
    n_failures * trip_threshold[2] >= trip_threshold[1] * sliding_window_size

exceeds_threshold(n_failures) ==
    n_failures * trip_threshold[2] > trip_threshold[1] * sliding_window_size

\* Mutants of handle_call_failure: one that counts every exception, one
\* that re-opens from HALF_OPEN only when no probe has succeeded yet.
handle_call_failure_CountsAll(b, exception, t) ==
    LET b1 == state_getter(b, t)
    IN  IF b1.state = HALF_OPEN
        THEN state_setter(b1, OPEN, t)
        ELSE IF b1.state = CLOSED
        THEN LET b3 == [b1 EXCEPT !.executions =
                          RingBufferAdd(@, sliding_window_size, FAILURE)]
             IN  IF sliding_window_size # 0
                    /\ exceeds_threshold(failures(b3.executions))
                 THEN state_setter(b3, OPEN, t)
                 ELSE b3
        ELSE b1

handle_call_failure_AveragesProbes(b, exception, t) ==
    IF exception \in AllowedExceptions
    THEN handle_call_success(b, t)
    ELSE LET b1 == state_getter(b, t)
         IN  IF b1.state = HALF_OPEN
             THEN IF b1.calls_since_half_open = 0
                  THEN state_setter(b1, OPEN, t)
                  ELSE b1
             ELSE IF b1.state = CLOSED
             THEN LET b3 == [b1 EXCEPT !.executions =
                               RingBufferAdd(@, sliding_window_size, FAILURE)]
                  IN  IF sliding_window_size # 0
                         /\ exceeds_threshold(failures(b3.executions))
                      THEN state_setter(b3, OPEN, t)
                      ELSE b3
             ELSE b1

handle_call_failure(b, exception, t) ==
    IF exception \in AllowedExceptions
    THEN handle_call_success(b, t)
    ELSE LET b1 == state_getter(b, t)
         IN  IF b1.state = HALF_OPEN
             THEN state_setter(b1, OPEN, t)
             ELSE LET b2 == state_getter(b1, t)
                  IN  IF b2.state = CLOSED
                      THEN LET b3 == [b2 EXCEPT !.executions =
                                        RingBufferAdd(@, sliding_window_size, FAILURE)]
                           IN  IF sliding_window_size # 0
                                  /\ exceeds_threshold(failures(b3.executions))
                               THEN state_setter(b3, OPEN, t)
                               ELSE b3
                      ELSE b2

\* failures / self.__sliding_window_size raises ZeroDivisionError when the
\* window size is 0 and the division is reached.
handle_call_failure_raises(b, exception, t) ==
    /\ exception \notin AllowedExceptions
    /\ state_getter(b, t).state = CLOSED
    /\ sliding_window_size = 0

\* wrapped_func: what the caller gets for an admitted call.
wrapped_func_outcome(r, handler_raised) ==
    IF r = "value" THEN "value"
    ELSE IF handler_raised THEN "ZeroDivisionError"
    ELSE r

\* wrapped_func: the admission test on the value the getter returned.
call_not_allowed(s) == s = OPEN

----------------------------------------------------------------------------
\* The history variable admitted_in_half_open: a HALF_OPEN episode runs from
\* a step that enters HALF_OPEN to the next step that leaves it; the count
\* of the calls admitted in it starts at 0 and stops growing two past the
\* quota.
SameEpisode(b, b_next, n) ==
    IF b.state = HALF_OPEN /\ b_next.state = HALF_OPEN THEN n ELSE 0

CountAdmission(n) ==
    IF n < allowed_calls_in_half_open + 2 THEN n + 1 ELSE n

----------------------------------------------------------------------------
\* Construction: __init__ ends with self.state = CLOSED.

NewBreaker ==
    state_setter([state |-> CLOSED, state_transitioned_at |-> 0,
                  executions |-> <<>>, calls_since_half_open |-> 0],
                 CLOSED, 0)

Init ==
    /\ sliding_window_size \in 0..MaxWindow
    /\ trip_threshold \in Thresholds
    /\ trip_duration \in 1..MaxDuration
    /\ allowed_calls_in_half_open \in 1..MaxProbes
    /\ now = 0
    /\ cb = NewBreaker
    /\ pc = [t \in Threads |-> "idle"]
    /\ result = [t \in Threads |-> "none"]
    /\ ret = [t \in Threads |-> "none"]
    /\ admitted_in_half_open = 0
    /\ hist = <<>>
    /\ listed = <<>>

\* The clock advances.
Tick ==
    /\ now < MaxTime
    /\ now' = now + 1
    /\ UNCHANGED <<config, cb, pc, result, ret, admitted_in_half_open, hist, listed>>

\* wrapped_func, "if self.state == OPEN": the getter's locked block.
CallBegin(t) ==
    /\ pc[t] = "idle"
    /\ cb' = state_getter(cb, now)
    /\ pc' = [pc EXCEPT ![t] = "admission"]
    /\ ret' = [ret EXCEPT ![t] = "none"]
    /\ admitted_in_half_open' = SameEpisode(cb, cb', admitted_in_half_open)
    /\ UNCHANGED <<config, now, result, hist, listed>>

\* The getter's unlocked "return self.__state" and the comparison with OPEN.
CallAdmit(t) ==
    /\ pc[t] = "admission"
    /\ IF call_not_allowed(cb.state)
       THEN /\ pc' = [pc EXCEPT ![t] = "idle"]
            /\ ret' = [ret EXCEPT ![t] = "CallNotAllowedException"]
            /\ admitted_in_half_open' = admitted_in_half_open
       ELSE /\ pc' = [pc EXCEPT ![t] = "admitted"]
            /\ ret' = ret
            /\ admitted_in_half_open' =
                  IF cb.state = HALF_OPEN
                  THEN CountAdmission(admitted_in_half_open)
                  ELSE admitted_in_half_open
    /\ UNCHANGED <<config, cb, now, result, hist, listed>>

\* value = func(*args, **kwargs): the guarded function runs.
Invoke(t) ==
    /\ pc[t] = "admitted"
    /\ \E r \in FuncResults : result' = [result EXCEPT ![t] = r]
    /\ pc' = [pc EXCEPT ![t] = "report"]
    /\ UNCHANGED <<config, cb, now, ret, admitted_in_half_open, hist, listed>>

\* The report of the outcome and the wrapper's return or raise.
Report(t) ==
    /\ pc[t] = "report"
    /\ cb' = IF result[t] = "value"
             THEN handle_call_success(cb, now)
             ELSE handle_call_failure(cb, result[t], now)
    /\ ret' = [ret EXCEPT ![t] =
                 wrapped_func_outcome(result[t],
                    handle_call_failure_raises(cb, result[t], now))]
    /\ result' = [result EXCEPT ![t] = "none"]
    /\ pc' = [pc EXCEPT ![t] = "idle"]
    /\ admitted_in_half_open' = SameEpisode(cb, cb', admitted_in_half_open)
    /\ UNCHANGED <<config, now, hist, listed>>

\* A read of the state property by a caller: the locked block ...
ReadBegin(t) ==
    /\ pc[t] = "idle"
    /\ cb' = state_getter(cb, now)
    /\ pc' = [pc EXCEPT ![t] = "reading"]
    /\ ret' = [ret EXCEPT ![t] = "none"]
    /\ admitted_in_half_open' = SameEpisode(cb, cb', admitted_in_half_open)
    /\ UNCHANGED <<config, now, result, hist, listed>>

\* ... and its "return self.__state".
ReadReturn(t) ==
    /\ pc[t] = "reading"
    /\ pc' = [pc EXCEPT ![t] = "idle"]
    /\ ret' = [ret EXCEPT ![t] = cb.state]
    /\ UNCHANGED <<config, cb, now, result, admitted_in_half_open, hist, listed>>

Next ==
    \/ Tick
    \/ \E t \in Threads : CallBegin(t)
    \/ \E t \in Threads : CallAdmit(t)
    \/ \E t \in Threads : Invoke(t)
    \/ \E t \in Threads : Report(t)
    \/ \E t \in Threads : ReadBegin(t)
    \/ \E t \in Threads : ReadReturn(t)

Spec == Init /\ [][Next]_vars

\* The clock keeps advancing, every thread that has started an operation
\* finishes it (nothing in the breaker blocks), and every thread keeps
\* starting operations: the state keeps being read.
Fairness ==
    /\ WF_vars(Tick)
    /\ \A t \in Threads :
          /\ WF_vars(CallBegin(t) \/ ReadBegin(t))
          /\ WF_vars(CallAdmit(t))
          /\ WF_vars(Invoke(t))
          /\ WF_vars(Report(t))
          /\ WF_vars(ReadReturn(t))

\* For liveness the window is the smallest that trips (size 1, threshold
\* 1/2: the first counted failure opens the breaker); the duration and the
\* quota vary as in Init.
LiveInit ==
    /\ Init
    /\ sliding_window_size = 1
    /\ trip_threshold = <<1, 2>>

SpecLive == LiveInit /\ [][Next]_vars /\ Fairness

----------------------------------------------------------------------------
\* The ring buffer on its own, as tests/test_utils.py drives it: a buffer
\* of the configured capacity (cb.executions) under add, clear and list.

RingInit ==
    /\ sliding_window_size \in 0..MaxWindow
    /\ trip_threshold = <<1, 2>>
    /\ trip_duration = 1
    /\ allowed_calls_in_half_open = 1
    /\ now = 0
    /\ cb = NewBreaker
    /\ pc = [t \in Threads |-> "idle"]
    /\ result = [t \in Threads |-> "none"]
    /\ ret = [t \in Threads |-> "none"]
    /\ admitted_in_half_open = 0
    /\ hist = <<>>
    /\ listed = <<>>

RingAdd ==
    /\ Len(hist) < MaxAdds
    /\ \E item \in 1..MaxItem :
          /\ cb' = [cb EXCEPT !.executions =
                       RingBufferAdd(@, sliding_window_size, item)]
          /\ hist' = Append(hist, item)
    /\ UNCHANGED <<config, now, pc, result, ret, admitted_in_half_open, listed>>

RingClear ==
    /\ cb' = [cb EXCEPT !.executions = RingBufferClear(@)]
    /\ hist' = <<>>
    /\ UNCHANGED <<config, now, pc, result, ret, admitted_in_half_open, listed>>

RingList ==
    /\ listed' = RingBufferIter(cb.executions)
    /\ UNCHANGED <<config, cb, now, pc, result, ret, admitted_in_half_open, hist>>

RingNext == RingAdd \/ RingClear \/ RingList

SpecRing == RingInit /\ [][RingNext]_vars

----------------------------------------------------------------------------
\* Vocabulary of the properties below.

Elapsed == now - cb.state_transitioned_at

\* Thread t's step is: the locked block of a state read (of a call's
\* admission check or of a plain read), the unlocked return of an admission
\* check, the unlocked return of a plain read, the start of the guarded
\* function, the report of its outcome.
LockedReadStep(t) == pc[t] = "idle" /\ pc'[t] \in {"admission", "reading"}
AdmitStep(t) == pc[t] = "admission" /\ pc'[t] # "admission"
ReadReturnStep(t) == pc[t] = "reading" /\ pc'[t] = "idle"
InvokeStep(t) == pc[t] = "admitted" /\ pc'[t] = "report"
ReportStep(t) == pc[t] = "report" /\ pc'[t] = "idle"

CountedFailureReport(t) ==
    ReportStep(t) /\ result[t] \in Exceptions \ AllowedExceptions
IgnoredFailureReport(t) ==
    ReportStep(t) /\ result[t] \in AllowedExceptions
NonFailingReport(t) ==
    ReportStep(t) /\ result[t] \in {"value"} \cup AllowedExceptions

FailureCount(w) == Len(SelectSeq(w, LAMBDA x : x = FAILURE))
AppendEvicting(w, item) ==
    IF Len(w) < sliding_window_size
    THEN Append(w, item)
    ELSE Append(SubSeq(w, 2, Len(w)), item)
RatioExceeds(w) ==
    FailureCount(w) * trip_threshold[2] > trip_threshold[1] * sliding_window_size

Min(a, b) == IF a <= b THEN a ELSE b
LastItems(h, n) == SubSeq(h, Len(h) - n + 1, Len(h))

\* Thread t is the only thread that has ever done anything.
OnlyActor(t) == \A u \in Threads \ {t} : pc[u] = "idle" /\ ret[u] = "none"

----------------------------------------------------------------------------
\* C1: with window size N >= 1, a step taken while CLOSED moves the
\* breaker to OPEN if and only if it is the report of a counted failure
\* and, with that failure appended to the window (evicting the oldest entry
\* of a full window), failures * den > num * N, that is failures / N > T
\* with the configured N as the denominator; a ratio equal to T does not
\* trip, and nothing else opens a closed breaker.
C1_TripsExactlyAboveThreshold ==
    [][(cb.state = CLOSED /\ sliding_window_size >= 1) =>
          /\ cb'.state = OPEN <=>
                \E t \in Threads :
                    /\ CountedFailureReport(t)
                    /\ RatioExceeds(AppendEvicting(cb.executions, FAILURE))
          /\ \A t \in Threads : CountedFailureReport(t) =>
                cb'.executions = AppendEvicting(cb.executions, FAILURE)
      ]_vars

\* A breaker tripped by a window that is full and still holds a success.
C1_Witness ==
    /\ cb.state = OPEN
    /\ sliding_window_size >= 2
    /\ Len(cb.executions) = sliding_window_size
    /\ \E i \in 1..Len(cb.executions) : cb.executions[i] = SUCCESS
    /\ \E t \in Threads : ret[t] = "CountedError"

\* C2: while the breaker is OPEN and less than trip_duration has elapsed
\* since it opened, the state read of an admission check changes nothing,
\* and the check rejects the call: CallNotAllowedException is raised, the
\* thread does not go on to the guarded function, no outcome is pending or
\* reported and the breaker is left as it was.
C2_OpenRejectsBeforeDuration ==
    [][\A t \in Threads :
          (cb.state = OPEN /\ Elapsed < trip_duration) =>
             /\ LockedReadStep(t) => cb' = cb
             /\ AdmitStep(t) =>
                   /\ pc'[t] = "idle"
                   /\ ret'[t] = "CallNotAllowedException"
                   /\ result' = result
                   /\ cb' = cb
      ]_vars

C2_Witness ==
    /\ cb.state = OPEN
    /\ Elapsed < trip_duration
    /\ \E t \in Threads : pc[t] = "idle" /\ ret[t] = "CallNotAllowedException"

\* C3 as stated: a state read made while OPEN with Elapsed >= trip_duration,
\* equality included, moves the breaker to HALF_OPEN with the probe counter
\* at 0.
C3_HalfOpenAtDuration ==
    [][\A t \in Threads :
          (LockedReadStep(t) /\ cb.state = OPEN /\ Elapsed >= trip_duration) =>
             cb'.state = HALF_OPEN /\ cb'.calls_since_half_open = 0
      ]_vars

\* C3 as amended: a state read made while OPEN moves the breaker to
\* HALF_OPEN, with the probe counter at 0 and state_transitioned_at at the
\* time of the read, exactly when Elapsed > trip_duration; at
\* Elapsed <= trip_duration, equality included, it leaves the breaker as it
\* was.  The read returns the state as it stands at its return, and an
\* admission check rejects exactly when that state is OPEN.
C3_HalfOpenAfterDuration ==
    [][\A t \in Threads :
          /\ (LockedReadStep(t) /\ cb.state = OPEN) =>
                IF Elapsed > trip_duration
                THEN cb' = [cb EXCEPT !.state = HALF_OPEN,
                                      !.calls_since_half_open = 0,
                                      !.state_transitioned_at = now]
                ELSE cb' = cb
          /\ ReadReturnStep(t) => ret'[t] = cb.state
          /\ AdmitStep(t) => (pc'[t] = "admitted" <=> cb.state # OPEN)
      ]_vars

\* A read by the only active thread has just found the duration elapsed.
C3_Witness ==
    \E t \in Threads :
        /\ OnlyActor(t)
        /\ pc[t] \in {"admission", "reading"}
        /\ cb.state = HALF_OPEN
        /\ cb.calls_since_half_open = 0
        /\ cb.state_transitioned_at = now

\* C4: the report of a counted failure made while HALF_OPEN moves the
\* breaker to OPEN in that step, whatever the probe counter, and sets
\* state_transitioned_at to the time of the report.
C4_HalfOpenFailureReopens ==
    [][\A t \in Threads :
          (CountedFailureReport(t) /\ cb.state = HALF_OPEN) =>
             cb'.state = OPEN /\ cb'.state_transitioned_at = now
      ]_vars

\* Re-opened by a failure after a probe had succeeded.
C4_Witness ==
    /\ cb.state = OPEN
    /\ cb.calls_since_half_open >= 1
    /\ \E t \in Threads : ret[t] = "CountedError"

\* C5: the probe counter is 0 on entry to HALF_OPEN and, while HALF_OPEN,
\* changes only by a non-failing report (a success or an ignored failure),
\* which adds one; so it counts the non-failing reports since entry.  Such
\* a report leaves the breaker HALF_OPEN while fewer than Q came before it,
\* and the one after Q others, the (Q+1)-th, moves it to CLOSED with the
\* window empty and the counter 0.  (A report that itself finds the
\* duration elapsed enters HALF_OPEN and is the first probe.)
C5_ClosesOnProbeAfterQuota ==
    [][LET entering == cb.state = OPEN /\ Elapsed > trip_duration
           probes == IF entering THEN 0 ELSE cb.calls_since_half_open
       IN  /\ \A t \in Threads :
                (NonFailingReport(t) /\ (cb.state = HALF_OPEN \/ entering)) =>
                   IF probes < allowed_calls_in_half_open
                   THEN /\ cb'.state = HALF_OPEN
                        /\ cb'.calls_since_half_open = probes + 1
                   ELSE /\ probes = allowed_calls_in_half_open
                        /\ cb'.state = CLOSED
                        /\ cb'.executions = <<>>
                        /\ cb'.calls_since_half_open = 0
           /\ (cb.state # HALF_OPEN /\ cb'.state = HALF_OPEN) =>
                 \/ cb'.calls_since_half_open = 0
                 \/ /\ cb'.calls_since_half_open = 1
                    /\ \E t \in Threads : NonFailingReport(t)
           /\ (cb.state = HALF_OPEN /\ cb'.state = HALF_OPEN
               /\ cb'.calls_since_half_open # cb.calls_since_half_open) =>
                 \E t \in Threads : NonFailingReport(t)
      ]_vars

\* Closed again by the third probe of a quota of 2.
C5_Witness ==
    /\ allowed_calls_in_half_open = 2
    /\ cb.state = CLOSED
    /\ cb.state_transitioned_at > 0
    /\ \E t \in Threads : pc[t] = "idle" /\ ret[t] \in {"value", "IgnoredError"}

\* C6: the breaker is constructed CLOSED with an empty window and the probe
\* counter at 0, and every step that enters CLOSED leaves the window empty
\* and the counter at 0.
C6_EnteringClosedClears ==
    /\ cb.state = CLOSED =>
          cb.executions = <<>> /\ cb.calls_since_half_open = 0
    /\ [][(cb'.state = CLOSED /\ cb.state # CLOSED) =>
             cb'.executions = <<>> /\ cb'.calls_since_half_open = 0
         ]_vars

\* Closed again, after a window that held at least the failure that tripped.
C6_Witness ==
    /\ sliding_window_size >= 1
    /\ cb.state = CLOSED
    /\ cb.state_transitioned_at > 0
    /\ cb.executions = <<>>

\* C7: from every reachable state, the report of a failure in the ignore
\* set leaves the breaker (state, window, probe counter,
\* state_transitioned_at) exactly as the report of a success would; it does
\* not add a FAILURE to the window and does not move the breaker to OPEN.
C7_IgnoredFailureAsSuccess ==
    [][\A t \in Threads :
          IgnoredFailureReport(t) =>
             /\ cb' = handle_call_success(cb, now)
             /\ FailureCount(cb'.executions) <= FailureCount(cb.executions)
             /\ cb'.state = OPEN => cb.state = OPEN
      ]_vars

\* The only report of this HALF_OPEN episode was an ignored failure, and it
\* was counted as a probe.
C7_Witness ==
    \E t \in Threads :
        /\ OnlyActor(t)
        /\ pc[t] = "idle"
        /\ ret[t] = "IgnoredError"
        /\ cb.state = HALF_OPEN
        /\ cb.calls_since_half_open = 1

\* C8: an admitted call ends with the value the guarded function returned
\* or with the failure it raised, unchanged; a call is refused only when the
\* admission check sees OPEN; no other outcome exists.
C8_OutcomeIsValueOrOriginalFailure ==
    [][\A t \in Threads :
          /\ ReportStep(t) => ret'[t] = result[t]
          /\ (AdmitStep(t) /\ pc'[t] = "idle") =>
                cb.state = OPEN /\ ret'[t] = "CallNotAllowedException"
      ]_vars

\* C9: a ring buffer of capacity N never holds more than N items and holds
\* the last min(k, N) of the k items added since the last clear, oldest
\* first (so it is empty after a clear); listing it yields those items and
\* changes nothing.
C9_RingBufferKeepsLastN ==
    /\ [](/\ Len(cb.executions) <= sliding_window_size
          /\ cb.executions =
                LastItems(hist, Min(Len(hist), sliding_window_size)))
    /\ [][listed' # listed =>
             /\ listed' = LastItems(hist, Min(Len(hist), sliding_window_size))
             /\ cb' = cb
             /\ hist' = hist
         ]_vars

\* As in tests/test_utils.py: capacity 3, four adds, the list is the last
\* three.
C9_Witness ==
    /\ sliding_window_size = 3
    /\ hist = <<1, 2, 3, 1>>
    /\ listed = <<2, 3, 1>>

\* C10: no thread starts the guarded function while the breaker is OPEN and
\* less than trip_duration has elapsed since it opened.
C10_NoInvocationWhileOpen ==
    [][\A t \in Threads :
          InvokeStep(t) => ~(cb.state = OPEN /\ Elapsed < trip_duration)
      ]_vars


\* C11: in every HALF_OPEN episode at most Q + 1 calls are admitted.
C11_AtMostQuotaPlusOneProbes ==
    admitted_in_half_open <= allowed_calls_in_half_open + 1

\* C12: with window size 0, the report of a counted failure made while
\* CLOSED leaves the breaker CLOSED and raises nothing of its own: the
\* caller gets the failure the guarded function raised.
C12_ZeroWindowNeverTripsNorRaises ==
    [][\A t \in Threads :
          (sliding_window_size = 0 /\ CountedFailureReport(t)
           /\ cb.state = CLOSED) =>
             cb'.state = CLOSED /\ ret'[t] = result[t]
      ]_vars

\* C13: with Q >= 1, every step that changes the state is one of
\* CLOSED -> OPEN by the report of a counted failure, HALF_OPEN -> OPEN by
\* the report of a counted failure, OPEN -> HALF_OPEN by a state read made
\* after the duration has elapsed (a read of its own, an admission check,
\* or the read a non-failing report begins with), HALF_OPEN -> CLOSED by a
\* non-failing report; a non-failing report never opens the breaker and a
\* counted failure never closes it.
C13_TransitionsAreExhaustive ==
    [][/\ cb'.state # cb.state =>
             \/ /\ cb.state = CLOSED /\ cb'.state = OPEN
                /\ \E t \in Threads : CountedFailureReport(t)
             \/ /\ cb.state = HALF_OPEN /\ cb'.state = OPEN
                /\ \E t \in Threads : CountedFailureReport(t)
             \/ /\ cb.state = OPEN /\ cb'.state = HALF_OPEN
                /\ Elapsed > trip_duration
                /\ \E t \in Threads : LockedReadStep(t) \/ NonFailingReport(t)
             \/ /\ cb.state = HALF_OPEN /\ cb'.state = CLOSED
                /\ \E t \in Threads : NonFailingReport(t)
       /\ \A t \in Threads :
             /\ NonFailingReport(t) => (cb'.state = OPEN => cb.state = OPEN)
             /\ CountedFailureReport(t) =>
                   (cb'.state = CLOSED => cb.state = CLOSED)
      ]_vars

\* Closed again after a full cycle, and recording outcomes again.
C13_Witness ==
    /\ cb.state = CLOSED
    /\ cb.state_transitioned_at > 0
    /\ Len(cb.executions) >= 1

\* C14: the lazy transition is taken from OPEN only, after the duration,
\* and resets the probe counter; once the breaker is HALF_OPEN, no step
\* that leaves it HALF_OPEN moves state_transitioned_at or lowers the probe
\* counter, so no second thread repeats the transition or resets the
\* counter after a probe was counted.
C14_LazyTransitionOncePerEpisode ==
    [][/\ (cb.state # HALF_OPEN /\ cb'.state = HALF_OPEN) =>
             /\ cb.state = OPEN
             /\ Elapsed > trip_duration
             /\ cb'.state_transitioned_at = now
       /\ (cb.state = HALF_OPEN /\ cb'.state = HALF_OPEN) =>
             /\ cb'.state_transitioned_at = cb.state_transitioned_at
             /\ cb'.calls_since_half_open >= cb.calls_since_half_open
      ]_vars

\* A probe has been counted, time has passed since the transition, and both
\* threads are in a state read.
C14_Witness ==
    /\ cb.state = HALF_OPEN
    /\ cb.calls_since_half_open >= 1
    /\ Elapsed > trip_duration
    /\ \A t \in Threads : pc[t] \in {"admission", "reading"}

\* C15 as stated, the part that fails: the report of a counted failure made
\* while HALF_OPEN adds one to the probe counter.
C15_EveryHalfOpenReportCounts ==
    [][\A t \in Threads :
          (ReportStep(t) /\ cb.state = HALF_OPEN /\ cb'.state # CLOSED) =>
             cb'.calls_since_half_open = cb.calls_since_half_open + 1
      ]_vars

\* C15 as amended: the probe counter is 0 after every entry to HALF_OPEN
\* and to CLOSED (a report that itself finds the duration elapsed enters
\* HALF_OPEN first: a non-failing one then counts as the first probe, a
\* counted failure re-opens at once); a non-failing report made while
\* HALF_OPEN adds exactly one (and the one after Q others closes the
\* breaker); a counted failure made while HALF_OPEN, the entry to OPEN,
\* and every report made while CLOSED or while OPEN before the duration
\* has elapsed leave the counter as it was.
C15_ProbeCounterDiscipline ==
    [][LET entering == cb.state = OPEN /\ Elapsed > trip_duration
       IN  /\ (cb.state # HALF_OPEN /\ cb'.state = HALF_OPEN) =>
                 \/ cb'.calls_since_half_open = 0
                 \/ /\ cb'.calls_since_half_open = 1
                    /\ \E t \in Threads : NonFailingReport(t)
           /\ (cb.state # CLOSED /\ cb'.state = CLOSED) =>
                 cb'.calls_since_half_open = 0
           /\ \A t \in Threads :
                 /\ (NonFailingReport(t) /\ cb.state = HALF_OPEN) =>
                       \/ cb'.calls_since_half_open =
                             cb.calls_since_half_open + 1
                       \/ /\ cb.calls_since_half_open =
                                allowed_calls_in_half_open
                          /\ cb'.state = CLOSED
                 /\ (CountedFailureReport(t) /\ cb.state = HALF_OPEN) =>
                       cb'.calls_since_half_open = cb.calls_since_half_open
                 /\ (ReportStep(t) /\ ~entering /\ cb.state # HALF_OPEN) =>
                       cb'.calls_since_half_open = cb.calls_since_half_open
           /\ (cb'.state = OPEN /\ ~entering) =>
                 cb'.calls_since_half_open = cb.calls_since_half_open
           /\ cb'.calls_since_half_open # cb.calls_since_half_open =>
                 \/ entering
                 \/ cb.state = HALF_OPEN /\ \E t \in Threads : NonFailingReport(t)
      ]_vars

\* Re-opened by a counted failure after Q probes: the counter kept Q.
C15_Witness ==
    /\ cb.state = OPEN
    /\ cb.calls_since_half_open = allowed_calls_in_half_open
    /\ \E t \in Threads : pc[t] = "idle" /\ ret[t] = "CountedError"

\* C16: a step taken while the breaker is OPEN or HALF_OPEN (a report of
\* any kind, late ones included, or a state read) leaves the window as it
\* was, except the step from HALF_OPEN to CLOSED, which empties it.
C16_WindowWrittenOnlyWhileClosed ==
    [][cb.state \in {OPEN, HALF_OPEN} =>
          \/ cb'.executions = cb.executions
          \/ /\ cb.state = HALF_OPEN
             /\ cb'.state = CLOSED
             /\ cb'.executions = <<>>
      ]_vars

\* Probes were reported in HALF_OPEN and the window still holds what
\* tripped the breaker.
C16_Witness ==
    /\ cb.state = HALF_OPEN
    /\ cb.calls_since_half_open >= 1
    /\ Len(cb.executions) >= 1
    /\ \E t \in Threads : pc[t] = "idle" /\ ret[t] \in {"value", "IgnoredError"}

\* C17: if the clock keeps advancing and the state keeps being read, a
\* breaker that is OPEN with no admitted call still in flight, and whose
\* duration ends within the clock's range, becomes HALF_OPEN, however many
\* calls are attempted and rejected and however many reads are made before
\* the duration has elapsed; with calls in flight, it becomes HALF_OPEN
\* unless one of them re-opens it so late that the new duration ends
\* beyond the clock's range.
C17_OpenLeadsToHalfOpen ==
    /\ (/\ cb.state = OPEN
        /\ cb.state_transitioned_at + trip_duration < MaxTime
        /\ \A t \in Threads : pc[t] \notin {"admitted", "report"})
          ~> (cb.state = HALF_OPEN)
    /\ (cb.state = OPEN /\ cb.state_transitioned_at + trip_duration < MaxTime)
          ~> \/ cb.state = HALF_OPEN
             \/ /\ cb.state = OPEN
                /\ cb.state_transitioned_at + trip_duration >= MaxTime

\* A call was rejected while OPEN, and a later read returned HALF_OPEN.
C17_Witness ==
    /\ cb.state = HALF_OPEN
    /\ \E t \in Threads : pc[t] = "idle" /\ ret[t] = HALF_OPEN
    /\ \E t \in Threads : pc[t] = "idle" /\ ret[t] = "CallNotAllowedException"

\* C18: with window size N >= 1, a CLOSED breaker's window never exceeds
\* the threshold: failures * den <= num * N.
C18_ClosedWindowWithinThreshold ==
    (cb.state = CLOSED /\ sliding_window_size >= 1) =>
       FailureCount(cb.executions) * trip_threshold[2]
          <= trip_threshold[1] * sliding_window_size

\* Closed with the failure ratio exactly at the threshold.
C18_Witness ==
    /\ cb.state = CLOSED
    /\ sliding_window_size >= 1
    /\ FailureCount(cb.executions) >= 1
    /\ FailureCount(cb.executions) * trip_threshold[2]
          = trip_threshold[1] * sliding_window_size

\* C19: the probe counter is always in 0..Q and is 0 while CLOSED; the
\* closing check of the success handler does not fire for a non-failing
\* report made while CLOSED (which only appends SUCCESS to the window) nor
\* for one made while OPEN (which closes nothing).
C19_ProbeCounterBounds ==
    /\ [](/\ cb.calls_since_half_open \in 0..allowed_calls_in_half_open
          /\ cb.state = CLOSED => cb.calls_since_half_open = 0)
    /\ [][\A t \in Threads :
             /\ (NonFailingReport(t) /\ cb.state = CLOSED) =>
                   cb' = [cb EXCEPT !.executions =
                             IF sliding_window_size = 0 THEN @
                             ELSE AppendEvicting(@, SUCCESS)]
             /\ (NonFailingReport(t) /\ cb.state = OPEN) =>
                   cb'.state \in {OPEN, HALF_OPEN}
         ]_vars

\* HALF_OPEN with the counter at its upper bound Q.
C19_Witness ==
    /\ cb.state = HALF_OPEN
    /\ cb.calls_since_half_open = allowed_calls_in_half_open
    /\ allowed_calls_in_half_open = MaxProbes

\* C20 as stated, the part that fails: state_transitioned_at changes only
\* in a step that changes the state.
C20_TransitionTimeOnlyWithStateChange ==
    [][cb'.state_transitioned_at # cb.state_transitioned_at =>
          cb'.state # cb.state
      ]_vars

\* C20 as amended: while the breaker is OPEN and the duration has not
\* elapsed (Elapsed <= trip_duration) no step changes the breaker at all;
\* state_transitioned_at changes only in a step that changes the state, or
\* in the report of a counted failure that finds the breaker OPEN with the
\* duration elapsed, which re-opens it as of now.
C20_OpenIsFrozenUntilDuration ==
    [][/\ (cb.state = OPEN /\ Elapsed <= trip_duration) => cb' = cb
       /\ cb'.state_transitioned_at # cb.state_transitioned_at =>
             \/ cb'.state # cb.state
             \/ /\ cb.state = OPEN
                /\ Elapsed > trip_duration
                /\ cb'.state = OPEN
                /\ cb'.state_transitioned_at = now
                /\ \E t \in Threads : CountedFailureReport(t)
      ]_vars

\* OPEN before the duration has elapsed: a call has been rejected and a
\* call admitted earlier has its report pending.
C20_Witness ==
    /\ cb.state = OPEN
    /\ Elapsed <= trip_duration
    /\ \E t \in Threads : pc[t] = "idle" /\ ret[t] = "CallNotAllowedException"
    /\ \E t \in Threads : pc[t] = "report"

====
